---- MODULE Spec2Model ----
(***************************************************************************)
(* The indicator-and-scoring pipeline of posco_dashboard.py: one run of    *)
(* the Streamlit script from the sidebar's date range to the rendering,    *)
(* with the price frame, its derived columns and the probability pair.     *)
(*                                                                         *)
(* Numbers.  pandas holds every cell as an IEEE double.  The model holds a *)
(* cell as a pair <<n, d>>: d > 0 is the rational n/d in lowest terms,     *)
(* <<0,0>> is NaN, <<1,0>> is +inf and <<-1,0>> is -inf.  Arithmetic is    *)
(* the IEEE one on these (x/0, inf-inf, 0*inf, comparisons with NaN) but   *)
(* exact on the finite values; only the EMA recurrence is rounded, to a    *)
(* grid of 1/EmaScale, because its exact denominators grow without bound.  *)
(* The Open column is left out: only the candlestick trace reads it.       *)
(***************************************************************************)
EXTENDS Integers, Sequences, FiniteSets, TLC

VARIABLES pc, selected_period, custom_date, start_date, end_date,
          fetch_calls, errors, df, lookback_period,
          up_prob, down_prob, indicator_signals, rendered

vars == <<pc, selected_period, custom_date, start_date, end_date,
          fetch_calls, errors, df, lookback_period,
          up_prob, down_prob, indicator_signals, rendered>>

----------------------------------------------------------------------------
(* Extended rationals standing for the doubles of the frame.               *)

NaN == <<0, 0>>
PosInf == <<1, 0>>
NegInf == <<-1, 0>>

Abs(i) == IF i < 0 THEN -i ELSE i
Sgn(i) == IF i > 0 THEN 1 ELSE IF i < 0 THEN -1 ELSE 0

RECURSIVE GCD(_, _)
GCD(a, b) == IF b = 0 THEN a ELSE GCD(b, a % b)

\* n/d in lowest terms with a positive denominator; d = 0 keeps only the sign
Norm(n, d) ==
    IF d = 0 THEN <<Sgn(n), 0>>
    ELSE LET g == GCD(Abs(n), Abs(d))
         IN  <<Sgn(d) * (n \div g), Abs(d) \div g>>

R(i) == <<i, 1>>

IsNaN(x) == x = NaN
IsInf(x) == x[2] = 0 /\ x[1] # 0
IsFinite(x) == x[2] > 0

\* pd.notna
notna(x) == ~IsNaN(x)

RNeg(x) == <<-x[1], x[2]>>

RAdd(x, y) ==
    IF IsNaN(x) \/ IsNaN(y) THEN NaN
    ELSE IF IsInf(x) /\ IsInf(y) THEN (IF x = y THEN x ELSE NaN)
    ELSE IF IsInf(x) THEN x
    ELSE IF IsInf(y) THEN y
    ELSE Norm(x[1] * y[2] + y[1] * x[2], x[2] * y[2])

RSub(x, y) == RAdd(x, RNeg(y))

RMul(x, y) ==
    IF IsNaN(x) \/ IsNaN(y) THEN NaN
    ELSE IF IsInf(x) \/ IsInf(y)
         THEN <<Sgn(x[1]) * Sgn(y[1]), 0>>      \* 0 * inf is NaN
         ELSE Norm(x[1] * y[1], x[2] * y[2])

RDiv(x, y) ==
    IF IsNaN(x) \/ IsNaN(y) THEN NaN
    ELSE IF IsInf(y) THEN (IF IsInf(x) THEN NaN ELSE R(0))
    ELSE IF IsInf(x) THEN <<x[1] * (IF y[1] < 0 THEN -1 ELSE 1), 0>>
    ELSE IF y[1] = 0 THEN <<Sgn(x[1]), 0>>      \* x/0 is +-inf, 0/0 is NaN
    ELSE Norm(x[1] * y[2], x[2] * y[1])

\* comparisons: False whenever an operand is NaN
RLt(x, y) ==
    IF IsNaN(x) \/ IsNaN(y) THEN FALSE
    ELSE IF IsInf(x) \/ IsInf(y)
         THEN (IF IsInf(x) /\ IsInf(y) THEN x[1] < y[1]
               ELSE IF IsInf(x) THEN x[1] < 0 ELSE y[1] > 0)
         ELSE x[1] * y[2] < y[1] * x[2]

RGt(x, y) == RLt(y, x)
RLe(x, y) == notna(x) /\ notna(y) /\ ~RLt(y, x)
RGe(x, y) == RLe(y, x)

\* np.sign
RSign(x) == IF IsNaN(x) THEN NaN ELSE R(Sgn(x[1]))

\* Python's built-in min(a, b) and max(a, b): the first argument unless the
\* second compares smaller (larger)
PyMin(a, b) == IF RLt(b, a) THEN b ELSE a
PyMax(a, b) == IF RGt(b, a) THEN b ELSE a

----------------------------------------------------------------------------
(* Series helpers (pandas Series as sequences of cells).                   *)

Last(s) == s[Len(s)]

\* a column as the tuple of its cells (the same function, each cell worked out once)
Col(f) == f \o <<>>

\* Series.tail(k)
Tail_(s, k) == IF Len(s) <= k THEN s ELSE SubSeq(s, Len(s) - k + 1, Len(s))

\* s.iloc[-k], k >= 1
ILocNeg(s, k) == s[Len(s) - k + 1]

RECURSIVE SumFrom(_, _, _)
SumFrom(s, lo, hi) == IF lo > hi THEN R(0) ELSE RAdd(SumFrom(s, lo, hi - 1), s[hi])

\* Series.diff(): NaN in the first row
Diff(s) == Col([t \in 1..Len(s) |-> IF t = 1 THEN NaN ELSE RSub(s[t], s[t - 1])])

\* Series.fillna(v)
FillNa(s, v) == Col([t \in 1..Len(s) |-> IF IsNaN(s[t]) THEN v ELSE s[t]])

\* Series.cumsum() (of a NaN-free series)
CumSum(s) == Col([t \in 1..Len(s) |-> SumFrom(s, 1, t)])

\* Series.rolling(window=w).mean(): NaN until w rows are there, and wherever
\* the window holds a NaN
\* variant: rolling(w, min_periods=1).mean(), the mean of the rows seen so far
RollingMean_min_periods_1(s, w) ==
    Col([t \in 1..Len(s) |->
            LET lo == IF t < w THEN 1 ELSE t - w + 1
            IN  IF \E u \in lo..t : IsNaN(s[u]) THEN NaN
                ELSE RDiv(SumFrom(s, lo, t), R(t - lo + 1))])

RollingMean(s, w) ==
    Col([t \in 1..Len(s) |->
            IF t < w \/ \E u \in (t - w + 1)..t : IsNaN(s[u]) THEN NaN
            ELSE RDiv(SumFrom(s, t - w + 1, t), R(w))])

RECURSIVE MinFrom(_, _, _)
MinFrom(s, lo, hi) ==
    IF lo = hi THEN s[lo]
    ELSE LET m == MinFrom(s, lo, hi - 1) IN IF RLt(s[hi], m) THEN s[hi] ELSE m

RECURSIVE MaxFrom(_, _, _)
MaxFrom(s, lo, hi) ==
    IF lo = hi THEN s[lo]
    ELSE LET m == MaxFrom(s, lo, hi - 1) IN IF RGt(s[hi], m) THEN s[hi] ELSE m

\* Series.rolling(window=w).min() / .max()
RollingMin(s, w) ==
    Col([t \in 1..Len(s) |->
            IF t < w \/ \E u \in (t - w + 1)..t : IsNaN(s[u]) THEN NaN
            ELSE MinFrom(s, t - w + 1, t)])

RollingMax(s, w) ==
    Col([t \in 1..Len(s) |->
            IF t < w \/ \E u \in (t - w + 1)..t : IsNaN(s[u]) THEN NaN
            ELSE MaxFrom(s, t - w + 1, t)])

\* Series.mean(): the mean of the rows that are not NaN, NaN if there is none
RECURSIVE CountNotNa(_, _)
CountNotNa(s, hi) ==
    IF hi = 0 THEN 0 ELSE CountNotNa(s, hi - 1) + (IF IsNaN(s[hi]) THEN 0 ELSE 1)

SeriesMean(s) ==
    RDiv(SumFrom(FillNa(s, R(0)), 1, Len(s)), R(CountNotNa(s, Len(s))))

\* np.mean of an array: NaN as soon as one element is
NpMean(s) == RDiv(SumFrom(s, 1, Len(s)), R(Len(s)))

\* variant: clip(upper=hi), with no lower bound
Clip_upper_only(s, lo, hi) ==
    Col([t \in 1..Len(s) |-> IF RGt(s[t], hi) THEN hi ELSE s[t]])

\* Series.clip(lo, hi): NaN stays NaN
Clip(s, lo, hi) ==
    Col([t \in 1..Len(s) |->
            IF RLt(s[t], lo) THEN lo ELSE IF RGt(s[t], hi) THEN hi ELSE s[t]])

----------------------------------------------------------------------------
(* Indicator Engine: lines 229-270.                                        *)

EmaScale == 1000

ColMap(s, F(_)) == Col([t \in 1..Len(s) |-> F(s[t])])
ColZip(a, b, F(_, _)) == Col([t \in 1..Len(a) |-> F(a[t], b[t])])

\* a finite cell in units of 1/EmaScale
Ticks(x) == IF IsFinite(x) THEN (x[1] * EmaScale) \div x[2] ELSE 0

\* one step of y[t] = alpha*x[t] + (1-alpha)*y[t-1], alpha = 2/(span+1), on
\* the grid, rounded to the nearest tick
EmaStep(span, xs, ys) ==
    (2 * (2 * xs + (span - 1) * ys) + (span + 1)) \div (2 * (span + 1))

RECURSIVE EwmTicks(_, _, _)
EwmTicks(s, span, t) ==
    IF t = 1 THEN <<Ticks(s[1])>>
    ELSE LET y == EwmTicks(s, span, t - 1)
         IN  Append(y, EmaStep(span, Ticks(s[t]), y[t - 1]))

\* Series.ewm(span=span, adjust=False).mean() of a series of finite cells (the
\* fetched closes, and the MACD line made of them): y[0] = x[0] as it is
ewm_mean(s, span) ==
    IF Len(s) = 0 THEN <<>>
    ELSE LET y == EwmTicks(s, span, Len(s))
         IN  Col([t \in 1..Len(s) |->
                     IF \E u \in 1..t : ~IsFinite(s[u]) THEN NaN
                     ELSE IF t = 1 THEN s[1]
                     ELSE Norm(y[t], EmaScale)])

rsi_gain(x) == IF RGt(x, R(0)) THEN x ELSE R(0)
rsi_loss(x) == RNeg(IF RLt(x, R(0)) THEN x ELSE R(0))
rsi_of_rs(rs) == RSub(R(100), RDiv(R(100), RAdd(R(1), rs)))

\* variant: rs = loss / gain
calculate_rsi_inverted_rs(prices, period) ==
    LET delta == Diff(prices)
        gain  == RollingMean(ColMap(delta, rsi_gain), period)
        loss  == RollingMean(ColMap(delta, rsi_loss), period)
        rs    == ColZip(loss, gain, RDiv)
    IN  ColMap(rs, rsi_of_rs)

calculate_rsi(prices, period) ==
    LET delta == Diff(prices)
        gain  == RollingMean(ColMap(delta, rsi_gain), period)
        loss  == RollingMean(ColMap(delta, rsi_loss), period)
        rs    == ColZip(gain, loss, RDiv)
    IN  ColMap(rs, rsi_of_rs)

calculate_macd(prices, fast, slow, signal) ==
    LET ema_fast    == ewm_mean(prices, fast)
        ema_slow    == ewm_mean(prices, slow)
        macd_line   == ColZip(ema_fast, ema_slow, RSub)
        signal_line == ewm_mean(macd_line, signal)
        histogram   == ColZip(macd_line, signal_line, RSub)
    IN  <<macd_line, signal_line, histogram>>

\* variant: lowest_low taken over the highs instead of the lows
calculate_stochastic_high_low(high, low, close, k_period, d_period) ==
    LET lowest_low   == RollingMin(high, k_period)
        highest_high == RollingMax(high, k_period)
        k_percent    == Col([t \in 1..Len(close) |->
                            RMul(R(100), RDiv(RSub(close[t], lowest_low[t]),
                                              RSub(highest_high[t], lowest_low[t])))])
        d_percent    == RollingMean(k_percent, d_period)
    IN  <<k_percent, d_percent>>

calculate_stochastic(high, low, close, k_period, d_period) ==
    LET lowest_low   == RollingMin(low, k_period)
        highest_high == RollingMax(high, k_period)
        k_percent    == Col([t \in 1..Len(close) |->
                            RMul(R(100), RDiv(RSub(close[t], lowest_low[t]),
                                              RSub(highest_high[t], lowest_low[t])))])
        d_percent    == RollingMean(k_percent, d_period)
    IN  <<k_percent, d_percent>>

\* (np.sign(df['Close'].diff()) * df['Volume']).fillna(0).cumsum()
\* variant: the price change itself, not its sign, multiplies the volume
obv_column_unsigned(close, volume) ==
    CumSum(FillNa(ColZip(Diff(close), volume, RMul), R(0)))

obv_column(close, volume) ==
    CumSum(FillNa(ColZip(ColMap(Diff(close), RSign), volume, RMul), R(0)))

----------------------------------------------------------------------------
(* Frames: a DataFrame is a record of equally long columns; None is the    *)
(* record with no column.                                                  *)

NoneDF == <<>>
Unset == <<>>

\* len(df)
FrameLen(f) == Len(f.Close)

\* df.tail(k)
TailFrame(f, k) == [c \in DOMAIN f |-> Tail_(f[c], k)]

\* df[name] = col
WithColumn(f, name, col) == (name :> col) @@ f

----------------------------------------------------------------------------
(* Signal Scorer: calculate_probability, lines 273-408.                    *)

\* variant: the two strong signals score 90 and 10
rsi_signal_wide(latest_rsi) ==
    IF notna(latest_rsi)
    THEN IF RLt(latest_rsi, R(30)) THEN 90
         ELSE IF RLt(latest_rsi, R(40)) THEN 65
         ELSE IF RLt(latest_rsi, R(50)) THEN 55
         ELSE IF RLt(latest_rsi, R(60)) THEN 45
         ELSE IF RLt(latest_rsi, R(70)) THEN 35
         ELSE 10
    ELSE 50

rsi_signal(latest_rsi) ==
    IF notna(latest_rsi)
    THEN IF RLt(latest_rsi, R(30)) THEN 80
         ELSE IF RLt(latest_rsi, R(40)) THEN 65
         ELSE IF RLt(latest_rsi, R(50)) THEN 55
         ELSE IF RLt(latest_rsi, R(60)) THEN 45
         ELSE IF RLt(latest_rsi, R(70)) THEN 35
         ELSE 20
    ELSE 50

\* variant: a histogram that did not fall counts as rising
macd_signal_hist_ge(latest_macd, latest_signal, latest_hist, prev_hist) ==
    IF notna(latest_macd) /\ notna(latest_signal)
    THEN IF RGt(latest_macd, latest_signal) /\ RGe(latest_hist, prev_hist) THEN 75
         ELSE IF RGt(latest_macd, latest_signal) THEN 60
         ELSE IF RLt(latest_macd, latest_signal) /\ RLe(latest_hist, prev_hist) THEN 25
         ELSE IF RLt(latest_macd, latest_signal) THEN 40
         ELSE 50
    ELSE 50

macd_signal(latest_macd, latest_signal, latest_hist, prev_hist) ==
    IF notna(latest_macd) /\ notna(latest_signal)
    THEN IF RGt(latest_macd, latest_signal) /\ RGt(latest_hist, prev_hist) THEN 75
         ELSE IF RGt(latest_macd, latest_signal) THEN 60
         ELSE IF RLt(latest_macd, latest_signal) /\ RLt(latest_hist, prev_hist) THEN 25
         ELSE IF RLt(latest_macd, latest_signal) THEN 40
         ELSE 50
    ELSE 50

stochastic_signal(latest_stoch_k, latest_stoch_d) ==
    IF notna(latest_stoch_k) /\ notna(latest_stoch_d)
    THEN IF RLt(latest_stoch_k, R(20)) /\ RGt(latest_stoch_k, latest_stoch_d) THEN 75
         ELSE IF RLt(latest_stoch_k, R(30)) THEN 60
         ELSE IF RGt(latest_stoch_k, R(80)) /\ RLt(latest_stoch_k, latest_stoch_d) THEN 25
         ELSE IF RGt(latest_stoch_k, R(70)) THEN 40
         ELSE 50
    ELSE 50

\* ma5, ma20: the cell, or None (here NaN: pd.notna(None) is False) when the
\* frame has no such column
ma_signal(latest_price, ma5, ma20) ==
    IF notna(ma5) /\ notna(ma20)
    THEN IF RGt(latest_price, ma5) /\ RGt(ma5, ma20) THEN 70
         ELSE IF RGt(latest_price, ma5) THEN 60
         ELSE IF RLt(latest_price, ma5) /\ RLt(ma5, ma20) THEN 30
         ELSE IF RLt(latest_price, ma5) THEN 40
         ELSE 50
    ELSE 50

\* the row both trends are measured from: .iloc[-min(5, len(recent_df)-1)]
trend_base(col) == ILocNeg(col, IF 5 < Len(col) - 1 THEN 5 ELSE Len(col) - 1)

obv_signal(obv, close) ==
    IF Len(close) > 1
    THEN LET obv_trend   == RSub(Last(obv), trend_base(obv))
             price_trend == RSub(Last(close), trend_base(close))
         IN  IF RGt(obv_trend, R(0)) /\ RGt(price_trend, R(0)) THEN 70
             ELSE IF RLt(obv_trend, R(0)) /\ RLt(price_trend, R(0)) THEN 30
             ELSE IF RGt(obv_trend, R(0)) /\ RLt(price_trend, R(0)) THEN 45
             ELSE 55
    ELSE 50

\* (recent_volumes / avg_volume).fillna(1.0).clip(0.5, 2.0).values
volume_weights(volume) ==
    LET recent_volumes == Tail_(volume, 5)
        avg_volume     == SeriesMean(volume)
        ratio(v)       == RDiv(v, avg_volume)
    IN  Clip(FillNa(ColMap(recent_volumes, ratio), R(1)), Norm(1, 2), R(2))

indicator_names == <<"RSI", "MACD", "Stochastic", "MA", "OBV">>

indicator_weights ==
    [RSI |-> Norm(25, 100), MACD |-> Norm(25, 100), Stochastic |-> Norm(15, 100),
     MA |-> Norm(20, 100), OBV |-> Norm(15, 100)]

\* the loop of lines 391-397, then lines 399-402
final_score(signals, vweights) ==
    LET volume_weight == IF Len(vweights) > 0 THEN NpMean(vweights) ELSE R(1)
        adjusted_weight(i) == RMul(indicator_weights[i], volume_weight)
        used == SelectSeq(indicator_names, LAMBDA i : i \in DOMAIN signals)
        weighted_scores == [k \in 1..Len(used) |->
                               RMul(R(signals[used[k]]), adjusted_weight(used[k]))]
        weights == [k \in 1..Len(used) |-> adjusted_weight(used[k])]
        total_weight == SumFrom(weights, 1, Len(weights))
    IN  IF RGt(total_weight, R(0))
        THEN RDiv(SumFrom(weighted_scores, 1, Len(weighted_scores)), total_weight)
        ELSE R(50)

\* up_probability = max(0, min(100, final_score))
up_probability(score) == PyMax(R(0), PyMin(R(100), score))

\* down_probability = 100 - up_probability
\* variant: the complement to 1 instead of 100
down_probability_fraction(up) == RSub(R(1), up)

down_probability(up) == RSub(R(100), up)

Cell(f, name, k) == IF name \in DOMAIN f THEN ILocNeg(f[name], k) ELSE NaN

calculate_probability(frame, lookback) ==
    LET lb        == IF FrameLen(frame) < lookback THEN FrameLen(frame) ELSE lookback
        recent_df == TailFrame(frame, lb)
        n         == FrameLen(recent_df)
        latest_hist == ILocNeg(recent_df.MACD_Hist, 1)
        prev_hist   == IF n > 1 THEN ILocNeg(recent_df.MACD_Hist, 2) ELSE latest_hist
        signals ==
            [RSI        |-> rsi_signal(ILocNeg(recent_df.RSI, 1)),
             MACD       |-> macd_signal(ILocNeg(recent_df.MACD, 1),
                                        ILocNeg(recent_df.MACD_Signal, 1),
                                        latest_hist, prev_hist),
             Stochastic |-> stochastic_signal(ILocNeg(recent_df.Stoch_K, 1),
                                              ILocNeg(recent_df.Stoch_D, 1)),
             MA         |-> ma_signal(ILocNeg(recent_df.Close, 1),
                                      Cell(recent_df, "MA_5", 1),
                                      Cell(recent_df, "MA_20", 1)),
             OBV        |-> obv_signal(recent_df.OBV, recent_df.Close)]
        up == up_probability(final_score(signals, volume_weights(recent_df.Volume)))
    IN  <<up, down_probability(up), signals>>

----------------------------------------------------------------------------
(* The script's statements on the frame, lines 229-270.                    *)

\* df.sort_index(): the rows in ascending order of Index (a stable sort)
sort_index(f) ==
    LET n == Len(f.Index)
        rank == Col([i \in 1..n |->
                    1 + Cardinality({j \in 1..n :
                            \/ f.Index[j] < f.Index[i]
                            \/ f.Index[j] = f.Index[i] /\ j < i})])
        row == Col([t \in 1..n |-> CHOOSE i \in 1..n : rank[i] = t])
    IN  [c \in DOMAIN f |-> Col([t \in 1..n |-> f[c][row[t]]])]

\* lines 229-233
preprocess(f) ==
    LET g == sort_index(f)
    IN  WithColumn(WithColumn(WithColumn(WithColumn(g,
            "MA_5", RollingMean(g.Close, 5)),
            "MA_20", RollingMean(g.Close, 20)),
            "MA_60", RollingMean(g.Close, 60)),
            "MA_120", RollingMean(g.Close, 120))

\* lines 255-256
with_rsi_macd(f) ==
    LET m == calculate_macd(f.Close, 12, 26, 9)
    IN  WithColumn(WithColumn(WithColumn(WithColumn(f,
            "RSI", calculate_rsi(f.Close, 14)),
            "MACD", m[1]), "MACD_Signal", m[2]), "MACD_Hist", m[3])

\* line 267
with_stochastic(f) ==
    LET kd == calculate_stochastic(f.High, f.Low, f.Close, 14, 3)
    IN  WithColumn(WithColumn(f, "Stoch_K", kd[1]), "Stoch_D", kd[2])

\* line 270
with_obv(f) == WithColumn(f, "OBV", obv_column(f.Close, f.Volume))

----------------------------------------------------------------------------
(* Inputs.                                                                 *)

MaxBars == 16
BasePrice == 100

\* datetime.now(), as a day number
Nows == {2000}

\* the days the two date_input widgets are set to
CustomDates(now) == {now - 20, now - 1, now}

\* a stretch of bars: the close moves by d a bar, the high is up above it, the
\* low dn below it, and vol is traded
Seg(d, up, dn, vol) == [d |-> d, up |-> up, dn |-> dn, vol |-> vol]

\* n bars dated from first on: bars 1..n1 follow s1, the later ones s2
TwoSegFrame(first, n, n1, s1, s2) ==
    LET seg(t) == IF t <= n1 THEN s1 ELSE s2
        c(t) == BasePrice + s1.d * ((IF t <= n1 THEN t ELSE n1) - 1)
                          + s2.d * (IF t <= n1 THEN 0 ELSE t - n1)
    IN  [Index  |-> [t \in 1..n |-> first + t - 1],
         High   |-> [t \in 1..n |-> R(c(t) + seg(t).up)],
         Low    |-> [t \in 1..n |-> R(c(t) - seg(t).dn)],
         Close  |-> [t \in 1..n |-> R(c(t))],
         Volume |-> [t \in 1..n |-> R(seg(t).vol)]]

\* what stock.history() returns in a run of the whole script
HistorySegs == {Seg(-1, 1, 1, 1000), Seg(0, 0, 0, 1000), Seg(1, 1, 1, 1000),
                Seg(1, 2, 0, 3000)}

Min(a, b) == IF a < b THEN a ELSE b

----------------------------------------------------------------------------
(* One run of the script.                                                  *)

\* the values of period_options (days), lines 157-164
period_options == {30, 90, 180, 365, 730, 1825}

Init ==
    /\ pc = "import"
    /\ selected_period = 180
    /\ custom_date = FALSE
    /\ start_date = Unset
    /\ end_date = Unset
    /\ fetch_calls = <<>>
    /\ errors = <<>>
    /\ df = NoneDF
    /\ lookback_period = 20
    /\ up_prob = Unset
    /\ down_prob = Unset
    /\ indicator_signals = Unset
    /\ rendered = FALSE

\* lines 9-27
ImportYFinance ==
    /\ pc = "import"
    /\ \/ /\ pc' = "sidebar"
          /\ UNCHANGED errors
       \/ /\ errors' = Append(errors, "yfinance_missing")
          /\ pc' = "stopped"
    /\ UNCHANGED <<selected_period, custom_date, start_date, end_date, fetch_calls,
                   df, lookback_period, up_prob, down_prob, indicator_signals,
                   rendered>>

\* lines 166-190
\* variant: custom dates are refused only when start_date > end_date
DateRange_strict ==
    /\ pc = "sidebar"
    /\ \E now \in Nows, p \in period_options :
          /\ selected_period' = p
          /\ \/ /\ custom_date' = FALSE
                /\ end_date' = now
                /\ start_date' = now - p
                /\ pc' = "load"
                /\ UNCHANGED errors
             \/ /\ custom_date' = TRUE
                /\ \E s \in CustomDates(now), e \in CustomDates(now) :
                      /\ start_date' = s
                      /\ end_date' = e
                      /\ IF s > e
                         THEN /\ errors' = Append(errors, "date_order")
                              /\ pc' = "stopped"
                         ELSE /\ pc' = "load"
                              /\ UNCHANGED errors
    /\ UNCHANGED <<fetch_calls, df, lookback_period, up_prob, down_prob,
                   indicator_signals, rendered>>

DateRange ==
    /\ pc = "sidebar"
    /\ \E now \in Nows, p \in period_options :
          /\ selected_period' = p
          /\ \/ /\ custom_date' = FALSE
                /\ end_date' = now
                /\ start_date' = now - p
                /\ pc' = "load"
                /\ UNCHANGED errors
             \/ /\ custom_date' = TRUE
                /\ \E s \in CustomDates(now), e \in CustomDates(now) :
                      /\ start_date' = s
                      /\ end_date' = e
                      /\ IF s >= e
                         THEN /\ errors' = Append(errors, "date_order")
                              /\ pc' = "stopped"
                         ELSE /\ pc' = "load"
                              /\ UNCHANGED errors
    /\ UNCHANGED <<fetch_calls, df, lookback_period, up_prob, down_prob,
                   indicator_signals, rendered>>

\* line 222 with load_stock_data, lines 119-129
load_stock_data ==
    /\ pc = "load"
    /\ fetch_calls' = Append(fetch_calls, <<start_date, end_date>>)
    /\ \/ /\ errors' = Append(errors, "fetch_exception")     \* except Exception
          /\ df' = NoneDF
       \/ /\ df' = NoneDF                                    \* df.empty
          /\ UNCHANGED errors
       \/ /\ \E n \in 1..Min(MaxBars, end_date - start_date), s \in HistorySegs :
                df' = TwoSegFrame(start_date, n, n, s, s)
          /\ UNCHANGED errors
    /\ pc' = "loaded"
    /\ UNCHANGED <<selected_period, custom_date, start_date, end_date,
                   lookback_period, up_prob, down_prob, indicator_signals, rendered>>

\* lines 224-226
\* variant: the error is shown but st.stop() is not called
CheckLoaded_no_stop ==
    /\ pc = "loaded"
    /\ IF df = NoneDF \/ FrameLen(df) = 0
       THEN /\ errors' = Append(errors, "no_data")
            /\ pc' = "preprocess"
       ELSE /\ pc' = "preprocess"
            /\ UNCHANGED errors
    /\ UNCHANGED <<selected_period, custom_date, start_date, end_date, fetch_calls,
                   df, lookback_period, up_prob, down_prob, indicator_signals,
                   rendered>>

CheckLoaded ==
    /\ pc = "loaded"
    /\ IF df = NoneDF \/ FrameLen(df) = 0
       THEN /\ errors' = Append(errors, "no_data")
            /\ pc' = "stopped"
       ELSE /\ pc' = "preprocess"
            /\ UNCHANGED errors
    /\ UNCHANGED <<selected_period, custom_date, start_date, end_date, fetch_calls,
                   df, lookback_period, up_prob, down_prob, indicator_signals,
                   rendered>>

Step(from, to, frame) ==
    /\ pc = from
    /\ df' = frame
    /\ pc' = to
    /\ UNCHANGED <<selected_period, custom_date, start_date, end_date, fetch_calls,
                   errors, lookback_period, up_prob, down_prob, indicator_signals,
                   rendered>>

\* lines 229-233
Preprocess == Step("preprocess", "rsi_macd", preprocess(df))

\* lines 255-256
ComputeRSIMACD == Step("rsi_macd", "stochastic", with_rsi_macd(df))

\* line 267
ComputeStochastic == Step("stochastic", "obv", with_stochastic(df))

\* line 270
ComputeOBV == Step("obv", "probability", with_obv(df))

\* line 411
CalculateProbability ==
    /\ pc = "probability"
    /\ LET r == calculate_probability(df, lookback_period)
       IN  /\ up_prob' = r[1]
           /\ down_prob' = r[2]
           /\ indicator_signals' = r[3]
    /\ pc' = "render"
    /\ UNCHANGED <<selected_period, custom_date, start_date, end_date, fetch_calls,
                   errors, df, lookback_period, rendered>>

\* lines 413-793: the indicators, charts and tables
Render ==
    /\ pc = "render"
    /\ rendered' = TRUE
    /\ pc' = "done"
    /\ UNCHANGED <<selected_period, custom_date, start_date, end_date, fetch_calls,
                   errors, df, lookback_period, up_prob, down_prob,
                   indicator_signals>>

Next ==
    \/ ImportYFinance
    \/ DateRange
    \/ load_stock_data
    \/ CheckLoaded
    \/ Preprocess
    \/ ComputeRSIMACD
    \/ ComputeStochastic
    \/ ComputeOBV
    \/ CalculateProbability
    \/ Render

Spec == Init /\ [][Next]_vars

----------------------------------------------------------------------------
(* The indicator statements on richer price series: the run has fetched    *)
(* the series with the default period and stands before the statement.     *)

RunAt(stage, frame, lookback) ==
    /\ pc = stage
    /\ selected_period = 180
    /\ custom_date = FALSE
    /\ \E now \in Nows :
          /\ end_date = now
          /\ start_date = now - 180
          /\ fetch_calls = <<(<<now - 180, now>>)>>
    /\ errors = <<>>
    /\ df = frame
    /\ lookback_period = lookback
    /\ up_prob = Unset
    /\ down_prob = Unset
    /\ indicator_signals = Unset
    /\ rendered = FALSE

Reached(stage, frame) == RunAt(stage, frame, 20)

FirstDay == CHOOSE d \in {now - 180 : now \in Nows} : TRUE

RSISegs == {Seg(d, 1, 1, 1000) : d \in {-1, 0, 1, 2}}

InitRSI ==
    \E n \in 1..MaxBars, s1 \in RSISegs, s2 \in RSISegs :
      \E n1 \in 1..n :
        Reached("rsi_macd", preprocess(TwoSegFrame(FirstDay, n, n1, s1, s2)))

SpecRSI == InitRSI /\ [][ComputeRSIMACD]_vars

StochSegs == {Seg(d, ud[1], ud[2], 1000) :
                 d \in {-1, 0, 1}, ud \in {<<0, 0>>, <<1, 0>>, <<0, 1>>, <<1, 1>>}}

InitStochastic ==
    \E n \in 1..MaxBars, s1 \in StochSegs, s2 \in StochSegs :
      \E n1 \in 1..n :
        Reached("stochastic",
                with_rsi_macd(preprocess(TwoSegFrame(FirstDay, n, n1, s1, s2))))

SpecStochastic == InitStochastic /\ [][ComputeStochastic]_vars

MaxOBVBars == 4
OBVCloses == {100, 101, 102, 105}
OBVVolumes == {1000, 3000}

\* bars with the closes and volumes given, one a day
FreeFrame(first, closes, volumes) ==
    [Index  |-> [t \in 1..Len(closes) |-> first + t - 1],
     High   |-> [t \in 1..Len(closes) |-> R(closes[t] + 1)],
     Low    |-> [t \in 1..Len(closes) |-> R(closes[t] - 1)],
     Close  |-> [t \in 1..Len(closes) |-> R(closes[t])],
     Volume |-> [t \in 1..Len(closes) |-> R(volumes[t])]]

InitOBV ==
    \E n \in 1..MaxOBVBars :
      \E closes \in [1..n -> OBVCloses], volumes \in [1..n -> OBVVolumes] :
        Reached("obv", with_stochastic(with_rsi_macd(preprocess(
                           FreeFrame(FirstDay, closes, volumes)))))

SpecOBV == InitOBV /\ [][ComputeOBV]_vars

----------------------------------------------------------------------------
(* calculate_probability on frames of any content: the cells the scorer    *)
(* reads are drawn from the sets below, NaN among them.                    *)

MaxRows == 7

\* lookback_period: a single row, a proper tail of the longer frames, and the
\* default, which every frame here is shorter than
Lookbacks == {1, 3, 20}

\* what the last row holds: RSI; MACD, MACD_Signal, MACD_Hist and the
\* MACD_Hist of the rows before; Stoch_K, Stoch_D; MA_5 and MA_20 as offsets
\* from the last close
RSICells == {NaN} \cup {R(v) : v \in {25, 30, 35, 45, 55, 65, 70, 75}}
MACDCells == {<<NaN, NaN, NaN, NaN>>, <<R(2), R(1), R(1), R(0)>>,
              <<R(2), R(1), R(1), R(1)>>, <<R(1), R(2), R(-1), R(0)>>,
              <<R(1), R(2), R(-1), R(-1)>>, <<R(1), R(1), R(0), R(0)>>}
StochCells == {<<NaN, NaN>>, <<R(10), R(5)>>, <<R(25), R(50)>>, <<R(90), R(95)>>,
               <<R(75), R(50)>>, <<R(50), R(50)>>}
MACells == {<<NaN, NaN>>, <<R(-1), R(-2)>>, <<R(-1), R(1)>>, <<R(1), R(2)>>,
            <<R(1), R(-1)>>, <<R(0), R(0)>>}

Ind(rsi, m, st, ma) == [rsi |-> rsi, macd |-> m, stoch |-> st, ma |-> ma]
UndefinedInd == Ind(NaN, <<NaN, NaN, NaN, NaN>>, <<NaN, NaN>>, <<NaN, NaN>>)

\* a row's Close, OBV and Volume
Row(c, o, v) == [close |-> c, obv |-> o, vol |-> v]
RowKinds == {Row(R(100), R(0), R(1000)), Row(R(102), R(1000), R(5000)),
             Row(R(101), R(-1000), R(0))}

\* short frames with undefined OBV or Volume cells, and with a rising and a
\* falling last stretch
BaseRows ==
    {<<Row(R(100), R(0), R(1000))>>,
     <<Row(R(100), NaN, NaN)>>,
     <<Row(R(100), NaN, NaN), Row(R(102), NaN, R(1000))>>,
     <<Row(R(100), NaN, R(0)), Row(R(100), NaN, R(0)), Row(R(100), NaN, R(0))>>,
     <<Row(R(100), R(0), R(0)), Row(R(100), R(0), R(0)), Row(R(102), R(1000), R(5000))>>,
     <<Row(R(102), R(1000), R(5000)), Row(R(102), R(1000), R(1000)),
       Row(R(100), R(0), R(1000))>>}

\* the frame with these rows whose last row holds the indicator cells ind
ScorerFrame(rows, ind) ==
    LET n == Len(rows)
        last(x) == [t \in 1..n |-> IF t = n THEN x ELSE NaN]
        close == [t \in 1..n |-> rows[t].close]
    IN  [Index       |-> [t \in 1..n |-> FirstDay + t - 1],
         High        |-> close,
         Low         |-> close,
         Close       |-> close,
         Volume      |-> [t \in 1..n |-> rows[t].vol],
         MA_5        |-> last(RAdd(rows[n].close, ind.ma[1])),
         MA_20       |-> last(RAdd(rows[n].close, ind.ma[2])),
         MA_60       |-> last(NaN),
         MA_120      |-> last(NaN),
         RSI         |-> last(ind.rsi),
         MACD        |-> last(ind.macd[1]),
         MACD_Signal |-> last(ind.macd[2]),
         MACD_Hist   |-> [t \in 1..n |-> IF t = n THEN ind.macd[3] ELSE ind.macd[4]],
         Stoch_K     |-> last(ind.stoch[1]),
         Stoch_D     |-> last(ind.stoch[2]),
         OBV         |-> [t \in 1..n |-> rows[t].obv]]

ScorerStart(frame, lookback) == RunAt("probability", frame, lookback)

\* every mix of indicator cells, on the short frames
InitBlend ==
    \E rsi \in RSICells, m \in MACDCells, st \in StochCells, ma \in MACells,
       rows \in BaseRows :
        ScorerStart(ScorerFrame(rows, Ind(rsi, m, st, ma)), 20)

\* every frame of up to MaxRows rows, with no indicator defined
InitTrend ==
    \E n \in 1..MaxRows, lb \in Lookbacks :
      \E rows \in [1..n -> RowKinds] :
        ScorerStart(ScorerFrame(rows, UndefinedInd), lb)

InitScorer == InitBlend \/ InitTrend

SpecScorer == InitScorer /\ [][CalculateProbability]_vars

\* the MACD branch: every combination of the four cells it reads, each NaN,
\* infinite or one of three finite values, on frames of one and of three rows
MACDValues == {NaN, PosInf, R(-1), R(0), R(1)}

MACDRows == {rows \in BaseRows : rows[1].obv = R(0)}

InitMACD ==
    \E macd \in MACDValues, sig \in MACDValues, hist \in MACDValues,
       prev \in MACDValues, rows \in MACDRows, lb \in Lookbacks :
        ScorerStart(ScorerFrame(rows, Ind(NaN, <<macd, sig, hist, prev>>,
                                          <<NaN, NaN>>, <<NaN, NaN>>)), lb)

SpecMACD == InitMACD /\ [][CalculateProbability]_vars

----------------------------------------------------------------------------
(* Properties.                                                             *)

Range(q) == {q[i] : i \in DOMAIN q}

InPercentRange(x) == IsFinite(x) /\ RLe(R(0), x) /\ RLe(x, R(100))

\* C1: once calculate_probability has returned, up_probability and
\* down_probability are both numbers in [0,100] and add up to exactly 100,
\* whatever cells of the frame are NaN.
C1_ProbabilitiesSumTo100 ==
    pc = "render" =>
        /\ InPercentRange(up_prob)
        /\ InPercentRange(down_prob)
        /\ RAdd(up_prob, down_prob) = R(100)

\* a scored frame with NaN volumes, a defined RSI, an undefined stochastic and
\* a score off the neutral 50
C1_Witness ==
    /\ pc = "render"
    /\ \E t \in 1..FrameLen(df) : IsNaN(df.Volume[t])
    /\ notna(Last(df.RSI))
    /\ IsNaN(Last(df.Stoch_K))
    /\ up_prob # R(50)
    /\ RAdd(up_prob, down_prob) = R(100)

FetchFailed == fetch_calls # <<>> /\ df = NoneDF

\* C2: after a fetch that raised or came back empty, the only step the run
\* takes is the one that shows the error and stops: the frame stays None, no
\* probability is computed and nothing is rendered, ever.
C2_FailedFetchHalts ==
    [][FetchFailed =>
          /\ pc' = "stopped"
          /\ Last(errors') = "no_data"
          /\ df' = NoneDF
          /\ up_prob' = Unset
          /\ down_prob' = Unset
          /\ indicator_signals' = Unset
          /\ rendered' = FALSE]_vars

\* the run stopped on the error after load_stock_data caught an exception
C2_Witness ==
    /\ pc = "stopped"
    /\ FetchFailed
    /\ errors = <<"fetch_exception", "no_data">>
    /\ ~rendered

AllNaNAt(f, cols, t) == \A c \in cols : c \in DOMAIN f /\ IsNaN(f[c][t])

Scored == pc = "render"

\* the indicator cells calculate_probability reads in its window of n rows
ReadCellsUndefined(f, n) ==
    /\ AllNaNAt(f, {"MA_5", "MA_20", "RSI", "MACD", "MACD_Signal", "MACD_Hist",
                    "Stoch_K", "Stoch_D", "OBV"}, Len(f.Close))
    /\ n > 1 => /\ IsNaN(ILocNeg(f.MACD_Hist, 2))
                /\ \A k \in 1..n : IsNaN(ILocNeg(f.OBV, k))

WindowLen == Min(lookback_period, FrameLen(df))

\* C3: a frame whose indicator cells are all undefined where the scorer reads
\* them scores up_probability = 50 and down_probability = 50.
C3_UndefinedScoresFifty ==
    (Scored /\ ReadCellsUndefined(df, WindowLen)) =>
        up_prob = R(50) /\ down_prob = R(50)

(* Helpers of the indicator properties: the sums and extremes of a 14-bar  *)
(* window worked out on the integer closes, highs and lows of the frame.   *)

Window(t) == {u \in (t - 13)..t : u >= 1}

RECURSIVE SumOver(_, _)
SumOver(F(_), S) ==
    IF S = {} THEN 0 ELSE LET u == CHOOSE x \in S : TRUE IN F(u) + SumOver(F, S \ {u})

\* close[u] - close[u-1], 0 in the first row
Change(u) == IF u = 1 THEN 0 ELSE df.Close[u][1] - df.Close[u - 1][1]
Gain(u) == IF Change(u) > 0 THEN Change(u) ELSE 0
Loss(u) == IF Change(u) < 0 THEN -Change(u) ELSE 0

\* fourteen times the average gain and loss of the window ending at t
GainSum(t) == SumOver(Gain, Window(t))
LossSum(t) == SumOver(Loss, Window(t))

RSIDone == pc = "stochastic"

\* C4 as claimed: at every bar with a full window whose average loss is zero,
\* RSI is 100.
C4_ZeroLossIsHundred ==
    RSIDone => \A t \in 14..FrameLen(df) : LossSum(t) = 0 => df.RSI[t] = R(100)

\* C4 as amended: at every bar with a full window whose average loss is zero,
\* RSI is 100 when the average gain is positive and NaN when it is zero too.
C4_ZeroLossPositiveGainIsHundred ==
    RSIDone =>
        \A t \in 14..FrameLen(df) :
            LossSum(t) = 0 =>
                IF GainSum(t) > 0 THEN df.RSI[t] = R(100) ELSE IsNaN(df.RSI[t])

\* a strictly increasing 15-bar series, with RSI 100 in its last two bars
C4_Witness ==
    /\ RSIDone
    /\ FrameLen(df) = 15
    /\ \A u \in 2..15 : Change(u) > 0
    /\ df.RSI[14] = R(100)
    /\ df.RSI[15] = R(100)

\* highest high = lowest low over the window ending at t
ZeroRange(t) == \A u \in Window(t), v \in Window(t) : df.High[u] = df.Low[v]

StochasticDone == pc = "obv"

\* C5: at every bar with a full 14-bar window of zero range, %K is 50.
C5_ZeroRangeIsNeutral ==
    StochasticDone =>
        \A t \in 14..FrameLen(df) : ZeroRange(t) => df.Stoch_K[t] = R(50)

Derived == {"MA_5", "MA_20", "MA_60", "MA_120", "RSI", "MACD", "MACD_Signal",
            "MACD_Hist", "Stoch_K", "Stoch_D", "OBV"}

OneBarFrame == pc \in {"probability", "render", "done"} /\ FrameLen(df) = 1

\* C6 as claimed: on a 1-bar series every derived field is undefined.
C6_OneBarAllUndefined == OneBarFrame => AllNaNAt(df, Derived, 1)

\* C6 as amended: on a 1-bar series every derived column is computed; the
\* moving averages, RSI, %K and %D are undefined, and MACD, its signal, its
\* histogram and OBV are 0.
C6_OneBarUndefinedButMACDAndOBV ==
    OneBarFrame =>
        /\ Derived \subseteq DOMAIN df
        /\ AllNaNAt(df, {"MA_5", "MA_20", "MA_60", "MA_120", "RSI", "Stoch_K",
                         "Stoch_D"}, 1)
        /\ \A c \in {"MACD", "MACD_Signal", "MACD_Hist", "OBV"} : df[c][1] = R(0)

\* a run on a 1-bar series that went through to the rendering
C6_Witness ==
    /\ pc = "done"
    /\ FrameLen(df) = 1
    /\ rendered
    /\ up_prob = R(50)

DatesSet == pc \notin {"import", "sidebar"} /\ "yfinance_missing" \notin Range(errors)

\* C7: every call of load_stock_data has start_date < end_date; custom dates
\* with start_date >= end_date stop the run with no call made; and past the
\* empty check the frame has at least one row.
C7_FetchDatesOrdered ==
    /\ \A i \in DOMAIN fetch_calls : fetch_calls[i][1] < fetch_calls[i][2]
    /\ pc = "load" => start_date < end_date
    /\ (DatesSet /\ start_date >= end_date) =>
           /\ custom_date
           /\ pc = "stopped"
           /\ fetch_calls = <<>>
           /\ "date_order" \in Range(errors)
    /\ pc \in {"preprocess", "rsi_macd", "stochastic", "obv", "probability",
               "render", "done"} => df # NoneDF /\ FrameLen(df) >= 1

\* a run on custom dates that fetched and passed the empty check
C7_Witness ==
    /\ custom_date
    /\ pc = "preprocess"
    /\ fetch_calls = <<(<<start_date, end_date>>)>>
    /\ start_date < end_date
    /\ FrameLen(df) >= 1

OBVDone == pc = "probability"

CloseSign(t) ==
    IF RGt(df.Close[t], df.Close[t - 1]) THEN 1
    ELSE IF RLt(df.Close[t], df.Close[t - 1]) THEN -1 ELSE 0

ExampleBars ==
    /\ df.Close = <<R(100), R(102), R(101), R(105)>>
    /\ df.Volume = <<R(1000), R(1000), R(1000), R(1000)>>

\* C8: OBV[0] = 0 and OBV[t] = OBV[t-1] + sign(close[t] - close[t-1]) *
\* volume[t]; closes 100, 102, 101, 105 with volumes of 1000 give
\* 0, 1000, 0, 1000.
C8_OBVRecurrence ==
    OBVDone =>
        /\ df.OBV[1] = R(0)
        /\ \A t \in 2..FrameLen(df) :
              df.OBV[t] = RAdd(df.OBV[t - 1], RMul(R(CloseSign(t)), df.Volume[t]))
        /\ ExampleBars => df.OBV = <<R(0), R(1000), R(0), R(1000)>>

\* the example series, with a falling and a rising bar in its OBV
C8_Witness ==
    /\ OBVDone
    /\ ExampleBars
    /\ df.OBV = <<R(0), R(1000), R(0), R(1000)>>

BarsOrdered ==
    \A t \in 1..FrameLen(df) : RLe(df.Low[t], df.Close[t]) /\ RLe(df.Close[t], df.High[t])

PercentOrNaN(x) == IsNaN(x) \/ InPercentRange(x)

\* C9: when every bar has low <= close <= high, %K and %D are at every bar
\* either NaN or in [0,100].
C9_StochasticInRange ==
    (StochasticDone /\ BarsOrdered) =>
        \A t \in 1..FrameLen(df) :
            PercentOrNaN(df.Stoch_K[t]) /\ PercentOrNaN(df.Stoch_D[t])

\* a frame with a %K strictly inside (0,100) and a %D that differs from it,
\* after bars where both are NaN
C9_Witness ==
    /\ StochasticDone
    /\ BarsOrdered
    /\ FrameLen(df) = 16
    /\ IsNaN(df.Stoch_K[13]) /\ IsNaN(df.Stoch_D[15])
    /\ \E t \in 1..FrameLen(df) :
          /\ RLt(R(0), df.Stoch_K[t]) /\ RLt(df.Stoch_K[t], R(100))
          /\ IsFinite(df.Stoch_D[t]) /\ df.Stoch_D[t] # df.Stoch_K[t]

\* the OBV sub-score as claimed: both deltas run from the row N = min(5, L-1)
\* bars before the last row of the window of L rows to its last row
ClaimedOBVSignal(obv, close) ==
    LET L == Len(close)
        N == Min(5, L - 1)
        obv_delta   == RSub(obv[L], obv[L - N])
        price_delta == RSub(close[L], close[L - N])
    IN  IF L <= 1 THEN 50
        ELSE IF RGt(obv_delta, R(0)) /\ RGt(price_delta, R(0)) THEN 70
        ELSE IF RLt(obv_delta, R(0)) /\ RLt(price_delta, R(0)) THEN 30
        ELSE IF RGt(obv_delta, R(0)) /\ RLt(price_delta, R(0)) THEN 45
        ELSE 55

\* C10: the OBV sub-score is 50 for a window of one row and otherwise follows
\* the deltas over the trailing min(5, L-1) bars: 70, 30, 45 or 55.
C10_OBVSubScore ==
    Scored =>
        indicator_signals.OBV =
            ClaimedOBVSignal(Tail_(df.OBV, WindowLen), Tail_(df.Close, WindowLen))

\* the four cells the MACD branch reads in its window
LatestMACD == Last(df.MACD)
LatestSignal == Last(df.MACD_Signal)
LatestHist == Last(df.MACD_Hist)
PrevHist == IF WindowLen > 1 THEN df.MACD_Hist[FrameLen(df) - 1] ELSE LatestHist

ClaimedMACDSignal ==
    IF IsNaN(LatestMACD) \/ IsNaN(LatestSignal) THEN 50
    ELSE IF RGt(LatestMACD, LatestSignal)
         THEN IF RGt(LatestHist, PrevHist) THEN 75 ELSE 60
    ELSE IF RLt(LatestMACD, LatestSignal)
         THEN IF RLt(LatestHist, PrevHist) THEN 25 ELSE 40
    ELSE 50

\* C11: the MACD sub-score is 50 when MACD or its signal is undefined, 75 or
\* 60 when MACD > signal (75 when the histogram rose), 25 or 40 when
\* MACD < signal (25 when the histogram fell), 50 when they are equal; on a
\* single-bar window it is 60, 40 or 50.
C11_MACDSubScore ==
    Scored =>
        /\ indicator_signals.MACD = ClaimedMACDSignal
        /\ WindowLen = 1 => indicator_signals.MACD \in {60, 40, 50}

\* a three-row frame scored on a single-bar window: MACD is above its signal
\* and the histogram of the row before is lower, yet the sub-score is 60
C11_Witness ==
    /\ Scored
    /\ FrameLen(df) = 3
    /\ WindowLen = 1
    /\ RGt(LatestMACD, LatestSignal)
    /\ RGt(LatestHist, df.MACD_Hist[2])
    /\ indicator_signals.MACD = 60

\* the window's volume weights and their mean, the scalar of line 394
WindowVolumeWeights == volume_weights(Tail_(df.Volume, WindowLen))
VolumeWeight == NpMean(WindowVolumeWeights)

InWeightRange(w) == IsFinite(w) /\ RLe(Norm(1, 2), w) /\ RLe(w, R(2))

\* total_weight of lines 389-397: the five adjusted weights added up
TotalWeight ==
    LET w(i) == RMul(indicator_weights[indicator_names[i]], VolumeWeight)
    IN  RAdd(RAdd(RAdd(RAdd(w(1), w(2)), w(3)), w(4)), w(5))

\* 0.25 RSI + 0.25 MACD + 0.15 Stochastic + 0.20 MA + 0.15 OBV
BaseWeightedScore(sig) ==
    Norm(25 * sig.RSI + 25 * sig.MACD + 15 * sig.Stochastic + 20 * sig.MA
         + 15 * sig.OBV, 100)

\* C12: every volume weight and their mean lie in [0.5, 2.0], total_weight
\* is positive, and up_probability is the base-weighted sum of the five
\* sub-scores, whatever the volumes (in exact arithmetic).
C12_VolumeWeightCancels ==
    Scored =>
        /\ \A k \in DOMAIN WindowVolumeWeights : InWeightRange(WindowVolumeWeights[k])
        /\ InWeightRange(VolumeWeight)
        /\ RGt(TotalWeight, R(0))
        /\ up_prob = BaseWeightedScore(indicator_signals)

\* a window whose volume weights are clipped at both ends, with a mean other
\* than 1 and a score other than 50
C12_Witness ==
    /\ Scored
    /\ \E k \in DOMAIN WindowVolumeWeights : WindowVolumeWeights[k] = Norm(1, 2)
    /\ \E k \in DOMAIN WindowVolumeWeights : WindowVolumeWeights[k] = R(2)
    /\ VolumeWeight # R(1)
    /\ up_prob # R(50)
    /\ up_prob = BaseWeightedScore(indicator_signals)

\* C13: each sub-score is in its finite set, the signal map has exactly the
\* five keys, up_probability lies in [25.5, 74.5], and the clamp to [0,100]
\* leaves the final score as it is.
C13_SubScoreSets ==
    Scored =>
        /\ DOMAIN indicator_signals = {"RSI", "MACD", "Stochastic", "MA", "OBV"}
        /\ indicator_signals.RSI \in {20, 35, 45, 50, 55, 65, 80}
        /\ indicator_signals.MACD \in {25, 40, 50, 60, 75}
        /\ indicator_signals.Stochastic \in {25, 40, 50, 60, 75}
        /\ indicator_signals.MA \in {30, 40, 50, 60, 70}
        /\ indicator_signals.OBV \in {30, 45, 50, 55, 70}
        /\ RLe(Norm(51, 2), up_prob) /\ RLe(up_prob, Norm(149, 2))
        /\ up_prob = final_score(indicator_signals, WindowVolumeWeights)

\* the five lowest sub-scores at once: up_probability is 25.5
C13_Witness ==
    /\ Scored
    /\ indicator_signals =
           [RSI |-> 20, MACD |-> 25, Stochastic |-> 25, MA |-> 30, OBV |-> 30]
    /\ up_prob = Norm(51, 2)
    /\ down_prob = Norm(149, 2)

====
